---- MODULE Spec2Model ----
(***************************************************************************)
(* Model of the two browser-automation scripts of spectre-explorer:        *)
(*   verification/verify_coloring.py  (verify_coloring_ui)                 *)
(*   verification/verify_editor.py    (verify_editor)                      *)
(* A run executes one script, statement by statement, against a page whose *)
(* behaviour (which elements appear and when) is fixed when the run starts.*)
(* Time is counted in milliseconds since the navigation.                   *)
(***************************************************************************)
EXTENDS Integers, Sequences, FiniteSets

VARIABLES
    script,     \* "coloring" or "editor": the script that runs
    page,       \* the behaviour of the application under test
    pc,         \* index of the next statement of the script
    status,     \* "running", "except" (inside an except block), "returned", "raised"
    now,        \* ms elapsed since page.goto
    mode,       \* value of the 'Coloring Rule' select on the page
    dlg,        \* the editor dialog of the page: [text, visibleAt, goneAt]
    browser,    \* "none", "open", "closed" (closed = browser.close() was called)
    listening,  \* the console and pageerror listeners are attached
    files,      \* screenshot files written by the run
    steps,      \* the automation calls made so far, in order
    out,        \* lines printed by the script itself
    nConsole,   \* "Console: ..." lines printed by the console listener
    nPageError, \* "PageError: ..." lines printed by the pageerror listener
    round,      \* 1 for the first run, 2 for the run repeated on the same page
    ref         \* what the first run did, kept for the comparison with the second

vars == <<script, page, pc, status, now, mode, dlg, browser, listening, files,
          steps, out, nConsole, nPageError, round, ref>>

(***************************************************************************)
(* Bounds of the model.                                                    *)
(***************************************************************************)
\* console and pageerror events a page emits during one run
MaxEvents == 1
\* option values the page's select may lack
MaxMissing == 1

(***************************************************************************)
(* Constants of the program.                                               *)
(***************************************************************************)
\* the automation library's default timeout, used where the call passes none
DefaultTimeout == 30000
CanvasTimeout == 5000
\* (a mistyped timeout=200)
DialogTimeoutTypo == 2000 \div 10
\* (the timeout argument left out: the library's default applies)
DialogTimeoutDefault == DefaultTimeout
DialogTimeout == 2000
ColoringSettle == 1000
EditorSettle == 500

Modes == {"random", "four-color", "orientation-gradient", "orientation"}

Max(a, b) == IF a >= b THEN a ELSE b

NoDialog == [text |-> "none", visibleAt |-> 0, goneAt |-> -1]

(***************************************************************************)
(* The scripts, statement by statement.  op/arg/ms are the call, line its  *)
(* line in the source, pre and post the lines printed before the call and  *)
(* after its success.  onfail is the file the enclosing except block       *)
(* writes before it returns ("" when the call is in no try block, so that  *)
(* its exception leaves the function), msg the line that block prints.     *)
(***************************************************************************)
Stmt(op, arg, ms, line, pre, post) ==
    [op |-> op, arg |-> arg, ms |-> ms, line |-> line, pre |-> pre, post |-> post,
     onfail |-> "", msg |-> "", failline |-> 0]

\* (an except block copied from the canvas wait with its file name unchanged)
TryCopyPaste(op, arg, ms, line, pre, post, msg, onfail, failline) ==
    [op |-> op, arg |-> arg, ms |-> ms, line |-> line, pre |-> pre, post |-> post,
     onfail |-> "error_state.png", msg |-> msg, failline |-> failline]

Try(op, arg, ms, line, pre, post, msg, onfail, failline) ==
    [op |-> op, arg |-> arg, ms |-> ms, line |-> line, pre |-> pre, post |-> post,
     onfail |-> onfail, msg |-> msg, failline |-> failline]

\* (the screenshot taken before the settling delay)
SelectAndShootEarly(value, file, line, say) ==
    << [op |-> "select_option", arg |-> value, ms |-> DefaultTimeout, line |-> line,
        pre |-> <<say>>, post |-> <<>>, onfail |-> "", msg |-> "", failline |-> 0],
       [op |-> "screenshot", arg |-> file, ms |-> 0, line |-> line + 2,
        pre |-> <<>>, post |-> <<>>, onfail |-> "", msg |-> "", failline |-> 0],
       [op |-> "wait_for_timeout", arg |-> "", ms |-> ColoringSettle, line |-> line + 1,
        pre |-> <<>>, post |-> <<>>, onfail |-> "", msg |-> "", failline |-> 0] >>

\* One coloring mode of verify_coloring_ui: select it, let the page settle,
\* save its screenshot (the block the source repeats for each mode).
SelectAndShoot(value, file, line, say) ==
    << Stmt("select_option", value, DefaultTimeout, line, <<say>>, <<>>),
       Stmt("wait_for_timeout", "", ColoringSettle, line + 1, <<>>, <<>>),
       Stmt("screenshot", file, 0, line + 2, <<>>,
            <<"Screenshot saved to verification/" \o file>>) >>

verify_coloring_ui ==
    << Stmt("launch", "chromium", 0, 6, <<>>, <<>>),
       Stmt("goto", "http://localhost:4173/", 0, 14, <<"Navigating...">>, <<>>),
       Try("wait_for_selector", "canvas", CanvasTimeout, 18,
           <<"Waiting for canvas...">>, <<"Canvas found.">>,
           "Canvas not found", "error_state.png", 22),
       Try("wait_for_selector", "text=Coloring Rule", DefaultTimeout, 27,
           <<>>, <<"UI found.">>, "UI not found", "error_state_ui.png", 31) >>
    \o SelectAndShoot("random", "random_coloring.png", 38, "Selecting Randomize...")
    \o SelectAndShoot("four-color", "four_color.png", 44, "Selecting 4-Color...")
    \o SelectAndShoot("orientation-gradient", "gradient.png", 50, "Selecting Gradient...")
    \o << Stmt("close", "", 0, 55, <<>>, <<>>) >>

verify_editor ==
    << Stmt("launch", "chromium", 0, 5, <<>>, <<>>),
       Stmt("goto", "http://localhost:4173/", 0, 12, <<"Navigating...">>, <<>>),
       Try("wait_for_selector", "canvas", CanvasTimeout, 15, <<>>, <<>>,
           "Canvas not found", "error_start.png", 18),
       Stmt("select_option", "orientation-gradient", DefaultTimeout, 25,
            <<"Selecting Gradient...">>, <<>>),
       Stmt("wait_for_timeout", "", EditorSettle, 26, <<>>, <<>>),
       Stmt("click", "button[title='Edit Rule']", DefaultTimeout, 30,
            <<"Opening Editor...">>, <<>>),
       Stmt("wait_for_selector", "text=Edit Gradient", DialogTimeout, 31, <<>>, <<>>),
       Stmt("screenshot", "editor_gradient.png", 0, 33, <<>>,
            <<"Screenshot: verification/editor_gradient.png">>),
       Stmt("click", "text=Cancel", DefaultTimeout, 37, <<>>, <<>>),
       Stmt("wait_for_timeout", "", EditorSettle, 38, <<>>, <<>>),
       Stmt("select_option", "orientation", DefaultTimeout, 41,
            <<"Selecting Orientation...">>, <<>>),
       Stmt("wait_for_timeout", "", EditorSettle, 42, <<>>, <<>>),
       Stmt("click", "button[title='Edit Rule']", DefaultTimeout, 45, <<>>, <<>>),
       Stmt("wait_for_selector", "text=Edit Orientation Colors", DialogTimeout, 46,
            <<>>, <<>>),
       Stmt("screenshot", "editor_orientation.png", 0, 48, <<>>,
            <<"Screenshot: verification/editor_orientation.png">>),
       Stmt("close", "", 0, 51, <<>>, <<>>) >>

Program(s) == IF s = "coloring" THEN verify_coloring_ui ELSE verify_editor

Running == status = "running" /\ pc <= Len(Program(script))
Cur == Program(script)[pc]
Terminated == status \in {"returned", "raised"}

(***************************************************************************)
(* The application under test, as far as the scripts can observe it.       *)
(*   reachable        page.goto succeeds                                   *)
(*   canvasAt         ms after navigation at which a canvas is visible     *)
(*   markerAt         ms at which the text 'Coloring Rule' is visible      *)
(*   options          option values of the select next to that text        *)
(*   editButton       button[title='Edit Rule'] exists                     *)
(*   gradientOpen     ms from the click on 'Edit Rule' until 'Edit         *)
(*                    Gradient' is visible (mode orientation-gradient)     *)
(*   orientationOpen  the same for 'Edit Orientation Colors'               *)
(*   cancel           the dialog has a 'Cancel' control                    *)
(*   dismiss          ms from the click on 'Cancel' until the dialog is    *)
(*                    removed from the page                                *)
(***************************************************************************)
CanvasDelays == {100, 6000}
MarkerDelays == {200, 40000}
OpenDelays == {300, 2500}
DismissDelays == {200, 800, 1200}
OptionSets == {S \in SUBSET Modes : Cardinality(Modes \ S) <= MaxMissing}

Pages ==
    [reachable : BOOLEAN, canvasAt : CanvasDelays, markerAt : MarkerDelays,
     options : OptionSets, editButton : BOOLEAN, gradientOpen : OpenDelays,
     orientationOpen : OpenDelays, cancel : BOOLEAN, dismiss : DismissDelays]

NoRef == [steps |-> <<>>, files |-> {}, status |-> "none", events |-> <<0, 0>>]

\* The text marking the dialog that 'Edit Rule' opens in mode m.
DialogMarker(m) ==
    IF m = "orientation-gradient" THEN "Edit Gradient"
    ELSE IF m = "orientation" THEN "Edit Orientation Colors"
    ELSE "other"

OpenDelay(m) ==
    IF m = "orientation-gradient" THEN page.gradientOpen ELSE page.orientationOpen

\* The dialog on the page at time t ("none" when there is none).
DialogText(t) ==
    IF dlg.text # "none" /\ (dlg.goneAt < 0 \/ t < dlg.goneAt) THEN dlg.text ELSE "none"

\* The time at which selector sel matches a visible element, -1 for never.
AppearsAt(sel) ==
    IF sel = "canvas" THEN page.canvasAt
    ELSE IF sel = "text=Coloring Rule" THEN page.markerAt
    ELSE IF dlg.text # "none" /\ dlg.goneAt < 0 /\ sel = "text=" \o dlg.text
         THEN dlg.visibleAt
    ELSE -1

Found(at, deadline) == at >= 0 /\ at <= deadline

\* The record of a call in steps: the call, whether it succeeded, the time at
\* which it was issued and the dialog that was on the page at that time.
Entry(st, ok) ==
    [op |-> st.op, arg |-> st.arg, ms |-> st.ms, line |-> st.line, ok |-> ok,
     at |-> now, dlg |-> DialogText(now)]

\* (no try block: every failed call leaves the function with its exception)
AfterFailureRaise(st, p) == [pc |-> p, status |-> "raised"]

\* (a failed call is attempted again)
AfterFailureRetry(st, p) == [pc |-> p, status |-> "running"]

\* Where a failed call leaves the run: in the except block of the enclosing
\* try, or out of the function with the exception.
AfterFailure(st, p) ==
    [pc |-> p, status |-> IF st.onfail = "" THEN "raised" ELSE "except"]

\* The call at pc succeeded at time t.
Pass(t) ==
    /\ pc' = pc + 1
    /\ status' = "running"
    /\ now' = t
    /\ steps' = Append(steps, Entry(Cur, TRUE))
    /\ out' = out \o Cur.pre \o Cur.post

\* The call at pc raised at time t.
Fail(t) ==
    /\ pc' = AfterFailure(Cur, pc).pc
    /\ status' = AfterFailure(Cur, pc).status
    /\ now' = t
    /\ steps' = Append(steps, Entry(Cur, FALSE))
    /\ out' = out \o Cur.pre

Init ==
    /\ script \in {"coloring", "editor"}
    /\ page \in Pages
    /\ pc = 1
    /\ status = "running"
    /\ now = 0
    /\ mode = "unset"
    /\ dlg = NoDialog
    /\ browser = "none"
    /\ listening = FALSE
    /\ files = {}
    /\ steps = <<>>
    /\ out = <<>>
    /\ nConsole = 0
    /\ nPageError = 0
    /\ round = 1
    /\ ref = NoRef

\* p.chromium.launch, browser.new_page and the two page.on calls.
Launch ==
    /\ Running /\ Cur.op = "launch"
    /\ browser' = "open"
    /\ listening' = TRUE
    /\ Pass(now)
    /\ UNCHANGED <<script, page, mode, dlg, files, nConsole, nPageError, round, ref>>

\* page.goto(url)
Goto ==
    /\ Running /\ Cur.op = "goto"
    /\ IF page.reachable THEN Pass(0) ELSE Fail(0)
    /\ UNCHANGED <<script, page, mode, dlg, browser, listening, files, nConsole,
                   nPageError, round, ref>>

\* page.wait_for_selector(sel, timeout=ms): returns when the element is visible,
\* raises when the timeout passes first.
WaitForSelector ==
    /\ Running /\ Cur.op = "wait_for_selector"
    /\ IF Found(AppearsAt(Cur.arg), now + Cur.ms)
          THEN Pass(Max(now, AppearsAt(Cur.arg)))
          ELSE Fail(now + Cur.ms)
    /\ UNCHANGED <<script, page, mode, dlg, browser, listening, files, nConsole,
                   nPageError, round, ref>>

\* select_loc.select_option(value): the locator is the select next to the text
\* 'Coloring Rule'; the call waits for it to resolve and for the option to exist.
\* It checks that the select is visible and enabled, not that nothing covers it.
SelectOption ==
    /\ Running /\ Cur.op = "select_option"
    /\ IF Found(page.markerAt, now + Cur.ms) /\ Cur.arg \in page.options
          THEN /\ Pass(Max(now, page.markerAt))
               /\ mode' = Cur.arg
          ELSE /\ Fail(now + Cur.ms)
               /\ mode' = mode
    /\ UNCHANGED <<script, page, dlg, browser, listening, files, nConsole,
                   nPageError, round, ref>>

\* page.wait_for_timeout(ms)
WaitForTimeout ==
    /\ Running /\ Cur.op = "wait_for_timeout"
    /\ Pass(now + Cur.ms)
    /\ UNCHANGED <<script, page, mode, dlg, browser, listening, files, nConsole,
                   nPageError, round, ref>>

\* page.click("button[title='Edit Rule']"): the click waits until the button
\* receives events, so until a dialog that is being dismissed is gone; it then
\* opens the dialog of the selected mode.
ClickEditRule ==
    /\ Running /\ Cur.op = "click" /\ Cur.arg = "button[title='Edit Rule']"
    /\ LET free == IF DialogText(now) = "none" THEN now ELSE dlg.goneAt
       IN  IF page.editButton /\ Found(free, now + Cur.ms)
              THEN /\ Pass(free)
                   /\ dlg' = [text |-> DialogMarker(mode),
                              visibleAt |-> free + OpenDelay(mode), goneAt |-> -1]
              ELSE /\ Fail(now + Cur.ms)
                   /\ dlg' = dlg
    /\ UNCHANGED <<script, page, mode, browser, listening, files, nConsole,
                   nPageError, round, ref>>

\* page.click("text=Cancel"): the page starts to dismiss the dialog.
ClickCancel ==
    /\ Running /\ Cur.op = "click" /\ Cur.arg = "text=Cancel"
    /\ IF page.cancel /\ DialogText(now) # "none"
          THEN /\ Pass(now)
               /\ dlg' = [dlg EXCEPT !.goneAt = now + page.dismiss]
          ELSE /\ Fail(now + Cur.ms)
               /\ dlg' = dlg
    /\ UNCHANGED <<script, page, mode, browser, listening, files, nConsole,
                   nPageError, round, ref>>

\* page.screenshot(path="verification/" + file)
Screenshot ==
    /\ Running /\ Cur.op = "screenshot"
    /\ files' = files \cup {Cur.arg}
    /\ Pass(now)
    /\ UNCHANGED <<script, page, mode, dlg, browser, listening, nConsole,
                   nPageError, round, ref>>

\* browser.close()
Close ==
    /\ Running /\ Cur.op = "close"
    /\ browser' = "closed"
    /\ Pass(now)
    /\ UNCHANGED <<script, page, mode, dlg, listening, files, nConsole,
                   nPageError, round, ref>>

\* (the except block without its return: the script goes on)
ExceptFallThrough ==
    /\ status = "except"
    /\ out' = Append(out, Cur.msg)
    /\ files' = files \cup {Cur.onfail}
    /\ steps' = Append(steps, [op |-> "screenshot", arg |-> Cur.onfail, ms |-> 0,
                               line |-> Cur.failline, ok |-> TRUE, at |-> now,
                               dlg |-> DialogText(now)])
    /\ status' = "running"
    /\ pc' = pc + 1
    /\ UNCHANGED <<script, page, now, mode, dlg, browser, listening, nConsole,
                   nPageError, round, ref>>

\* The except block of a failed wait: print, screenshot, return.
Except ==
    /\ status = "except"
    /\ out' = Append(out, Cur.msg)
    /\ files' = files \cup {Cur.onfail}
    /\ steps' = Append(steps, [op |-> "screenshot", arg |-> Cur.onfail, ms |-> 0,
                               line |-> Cur.failline, ok |-> TRUE, at |-> now,
                               dlg |-> DialogText(now)])
    /\ status' = "returned"
    /\ UNCHANGED <<script, page, pc, now, mode, dlg, browser, listening, nConsole,
                   nPageError, round, ref>>

\* The end of the with block after the last statement: the function returns.
Return ==
    /\ status = "running" /\ pc = Len(Program(script)) + 1
    /\ status' = "returned"
    /\ UNCHANGED <<script, page, pc, now, mode, dlg, browser, listening, files,
                   steps, out, nConsole, nPageError, round, ref>>

\* The page emits a console message: the listener prints it.
ConsoleEvent ==
    /\ listening /\ ~Terminated
    /\ nConsole + nPageError < MaxEvents
    /\ nConsole' = nConsole + 1
    /\ UNCHANGED <<script, page, pc, status, now, mode, dlg, browser, listening,
                   files, steps, out, nPageError, round, ref>>

\* (a pageerror listener that aborts the run)
PageErrorEventFatal ==
    /\ listening /\ ~Terminated
    /\ nConsole + nPageError < MaxEvents
    /\ nPageError' = nPageError + 1
    /\ status' = "raised"
    /\ UNCHANGED <<script, page, pc, now, mode, dlg, browser, listening,
                   files, steps, out, nConsole, round, ref>>

\* The page raises a JavaScript error: the listener prints it.
PageErrorEvent ==
    /\ listening /\ ~Terminated
    /\ nConsole + nPageError < MaxEvents
    /\ nPageError' = nPageError + 1
    /\ UNCHANGED <<script, page, pc, status, now, mode, dlg, browser, listening,
                   files, steps, out, nConsole, round, ref>>

\* A step of the script itself.
ScriptStep ==
    \/ Launch
    \/ Goto
    \/ WaitForSelector
    \/ SelectOption
    \/ WaitForTimeout
    \/ ClickEditRule
    \/ ClickCancel
    \/ Screenshot
    \/ Close
    \/ Except
    \/ Return

Next ==
    \/ ScriptStep
    \/ ConsoleEvent
    \/ PageErrorEvent

Spec == Init /\ [][Next]_vars

\* The same script is run again on the same page.
Rerun ==
    /\ round = 1 /\ Terminated
    /\ round' = 2
    /\ ref' = [steps |-> steps, files |-> files, status |-> status,
               events |-> <<nConsole, nPageError>>]
    /\ pc' = 1
    /\ status' = "running"
    /\ now' = 0
    /\ mode' = "unset"
    /\ dlg' = NoDialog
    /\ browser' = "none"
    /\ listening' = FALSE
    /\ files' = {}
    /\ steps' = <<>>
    /\ out' = <<>>
    /\ nConsole' = 0
    /\ nPageError' = 0
    /\ UNCHANGED <<script, page>>

NextTwice == Next \/ Rerun

SpecTwice == Init /\ [][NextTwice]_vars

(***************************************************************************)
(* Vocabulary of the properties.                                           *)
(***************************************************************************)
StepIdx == 1..Len(steps)

\* The call op(arg) was made, with outcome ok.
Did(op, arg, ok) ==
    \E i \in StepIdx : steps[i].op = op /\ steps[i].arg = arg /\ steps[i].ok = ok

Called(op) == \E i \in StepIdx : steps[i].op = op

IsPrefix(s, t) == Len(s) <= Len(t) /\ \A i \in 1..Len(s) : s[i] = t[i]

ColoringFiles == {"random_coloring.png", "four_color.png", "gradient.png"}
EditorFiles == {"editor_gradient.png", "editor_orientation.png"}
ErrorFiles == {"error_state.png", "error_state_ui.png", "error_start.png"}
Documented == IF script = "coloring" THEN ColoringFiles ELSE EditorFiles

\* The application is reachable and shows every element the script waits for
\* within the documented time: the canvas within 5 s, the 'Coloring Rule' text
\* and its select with the documented options, and for the editor script the
\* 'Edit Rule' button, both dialog markers within 2 s and 'Cancel'.
Compliant ==
    /\ page.reachable
    /\ page.canvasAt <= 5000
    /\ page.markerAt <= 30000
    /\ IF script = "coloring"
          THEN {"random", "four-color", "orientation-gradient"} \subseteq page.options
          ELSE /\ {"orientation-gradient", "orientation"} \subseteq page.options
               /\ page.editButton
               /\ page.cancel
               /\ page.gradientOpen <= 2000
               /\ page.orientationOpen <= 2000

\* C1: against a reachable application that shows every awaited element, a run
\* never raises and never enters an except block, can always take its next
\* step until it has returned, writes only documented files, and has written
\* exactly the documented set when it has returned: the three coloring
\* screenshots for verify_coloring_ui, the two editor screenshots for
\* verify_editor, and no error-state file.
C1_ExactFiles ==
    Compliant =>
        /\ status \in {"running", "returned"}
        /\ files \subseteq Documented
        /\ files \cap ErrorFiles = {}
        /\ ~Terminated => ENABLED ScriptStep
        /\ Terminated => files = Documented

C1_Witness ==
    /\ Compliant /\ script = "editor" /\ status = "returned"
    /\ files = EditorFiles
    /\ page.dismiss > 500

\* The canvas wait of the coloring script was made and timed out.
CanvasWaitFailed == Did("wait_for_selector", "canvas", FALSE)

\* C2: in the coloring script, when the canvas does not appear within 5000 ms
\* of the navigation, the canvas wait fails, nothing but error_state.png is
\* written, the run returns with exactly that file, and neither a wait for
\* 'Coloring Rule', nor a select_option, nor a per-mode screenshot happens.
C2_CanvasMissing ==
    (script = "coloring" /\ page.canvasAt > 5000 /\ Called("wait_for_selector")) =>
        /\ CanvasWaitFailed
        /\ files \subseteq {"error_state.png"}
        /\ status \in {"except", "returned"}
        /\ Terminated => files = {"error_state.png"}
        /\ ~Did("wait_for_selector", "text=Coloring Rule", TRUE)
        /\ ~Did("wait_for_selector", "text=Coloring Rule", FALSE)
        /\ ~Called("select_option")
        /\ \A i \in StepIdx : steps[i].op = "screenshot" => steps[i].arg = "error_state.png"

C2_Witness ==
    /\ script = "coloring" /\ page.canvasAt > 5000 /\ CanvasWaitFailed
    /\ status = "returned" /\ files = {"error_state.png"}

\* C3: in the coloring script, when the canvas appears but the 'Coloring Rule'
\* text does not appear before its wait times out, nothing but
\* error_state_ui.png is written, the run returns with exactly that file, and
\* no select_option call and no per-mode screenshot is made.
C3_MarkerMissing ==
    (script = "coloring" /\ Did("wait_for_selector", "canvas", TRUE)
       /\ Did("wait_for_selector", "text=Coloring Rule", FALSE)) =>
        /\ files \subseteq {"error_state_ui.png"}
        /\ status \in {"except", "returned"}
        /\ Terminated => files = {"error_state_ui.png"}
        /\ ~Called("select_option")
        /\ \A i \in StepIdx :
              steps[i].op = "screenshot" => steps[i].arg = "error_state_ui.png"

C3_Witness ==
    /\ script = "coloring" /\ page.canvasAt <= 5000 /\ page.markerAt > 30000
    /\ Did("wait_for_selector", "text=Coloring Rule", FALSE)
    /\ status = "returned" /\ files = {"error_state_ui.png"}

\* The text 'Coloring Rule' is absent from the page: it shows within no wait.
MarkerAbsent == page.markerAt > 30000

\* The line an except block prints before its screenshot.
Logged(msg) == \E i \in 1..Len(out) : out[i] = msg

\* C4 as claimed: in either script, when the application is reachable and the
\* canvas or the 'Coloring Rule' text is absent from the page, no exception
\* leaves verify_coloring_ui or verify_editor.
C4_NoExceptionEitherScript ==
    (page.reachable /\ (page.canvasAt > 5000 \/ MarkerAbsent)) => status # "raised"

\* C4 as amended: a timed-out wait that stands in a try block (the canvas wait
\* of both scripts, the 'Coloring Rule' wait of the coloring script) is
\* followed by the message, the screenshot and a normal return, so the coloring
\* script raises for no absent canvas or marker and the editor script for no
\* absent canvas; the editor script has no 'Coloring Rule' wait, and with the
\* canvas present and the marker absent its first select_option call times out
\* and the exception leaves verify_editor.
C4_HandledWaits ==
    /\ \A i \in StepIdx :
          (steps[i].op = "wait_for_selector" /\ ~steps[i].ok
             /\ steps[i].arg \in {"canvas", "text=Coloring Rule"}) =>
              /\ status \in {"except", "returned"}
              /\ status = "returned" =>
                    /\ Logged(IF steps[i].arg = "canvas" THEN "Canvas not found"
                                                        ELSE "UI not found")
                    /\ files \in {{"error_state.png"}, {"error_state_ui.png"},
                                  {"error_start.png"}}
                    /\ steps[Len(steps)].op = "screenshot"
    /\ (page.reachable /\ script = "coloring" /\ (page.canvasAt > 5000 \/ MarkerAbsent))
          => status # "raised"
    /\ (page.reachable /\ script = "editor" /\ page.canvasAt > 5000) => status # "raised"
    /\ (page.reachable /\ script = "editor" /\ page.canvasAt <= 5000 /\ MarkerAbsent
          /\ Terminated)
          => /\ status = "raised"
             /\ Did("select_option", "orientation-gradient", FALSE)
             /\ files = {}

C4_Witness ==
    /\ script = "editor" /\ page.canvasAt > 5000
    /\ Did("wait_for_selector", "canvas", FALSE)
    /\ status = "returned" /\ files = {"error_start.png"} /\ Logged("Canvas not found")

\* C5: in the editor script, editor_gradient.png is written only after the
\* click on 'Edit Rule' in mode orientation-gradient and a successful wait for
\* 'Edit Gradient', which the page showed within 2000 ms of the click; and
\* editor_orientation.png only after the click in mode orientation and a
\* successful wait for 'Edit Orientation Colors', shown within 2000 ms.
ShotAfterMarker(file, value, marker, delay) ==
    file \in files =>
        /\ delay <= 2000
        /\ \E h, i, j, k \in StepIdx :
              /\ h < i /\ i < j /\ j < k
              /\ steps[h].op = "select_option" /\ steps[h].arg = value /\ steps[h].ok
              /\ steps[i].op = "click" /\ steps[i].arg = "button[title='Edit Rule']"
              /\ steps[i].ok
              /\ steps[j].op = "wait_for_selector" /\ steps[j].arg = marker
              /\ steps[j].ok
              /\ steps[j].at + 2000 >= steps[i].at + delay
              /\ steps[k].op = "screenshot" /\ steps[k].arg = file
              /\ steps[k].at >= steps[i].at + delay
              /\ steps[k].dlg = DialogMarker(value)

C5_ShotOnlyAfterMarker ==
    script = "editor" =>
        /\ ShotAfterMarker("editor_gradient.png", "orientation-gradient",
                           "text=Edit Gradient", page.gradientOpen)
        /\ ShotAfterMarker("editor_orientation.png", "orientation",
                           "text=Edit Orientation Colors", page.orientationOpen)

C5_Witness ==
    /\ script = "editor"
    /\ "editor_gradient.png" \in files
    /\ Did("wait_for_selector", "text=Edit Orientation Colors", FALSE)
    /\ "editor_orientation.png" \notin files
    /\ status = "raised"

\* C6 as claimed: in the editor script, whenever the mode 'orientation' is
\* selected, the dialog opened for orientation-gradient is no longer on the
\* page at the time of the select_option call, whatever time the page takes
\* to dismiss it.
C6_DialogGoneBeforeSelect ==
    \A i \in StepIdx :
        (script = "editor" /\ steps[i].op = "select_option"
           /\ steps[i].arg = "orientation" /\ steps[i].ok) => steps[i].dlg = "none"

\* C7 as claimed: whenever verify_coloring_ui or verify_editor has returned
\* normally, browser.close() was called on the browser the run launched.
C7_ClosedOnReturn ==
    status = "returned" => browser = "closed"

\* C8: two runs of the same script on the same page, whatever console and
\* pageerror events the page emits during each: the second run's calls are at
\* every moment a prefix of the first run's, and once it has ended it has made
\* the same calls with the same outcomes, written the same files and ended the
\* same way (returned or raised).
C8_EventsChangeNothing ==
    round = 2 =>
        /\ IsPrefix(steps, ref.steps)
        /\ files \subseteq ref.files
        /\ status # "raised" \/ ref.status = "raised"
        /\ Terminated => /\ steps = ref.steps
                         /\ files = ref.files
                         /\ status = ref.status

C8_Witness ==
    /\ round = 2 /\ Terminated
    /\ ref.events = <<0, 0>>
    /\ nPageError > 0
    /\ Did("select_option", "orientation-gradient", TRUE)

\* What the coloring script does after its two waits, as claimed.
ColoringOrder ==
    << <<"select_option", "random">>, <<"wait_for_timeout", "">>,
       <<"screenshot", "random_coloring.png">>,
       <<"select_option", "four-color">>, <<"wait_for_timeout", "">>,
       <<"screenshot", "four_color.png">>,
       <<"select_option", "orientation-gradient">>, <<"wait_for_timeout", "">>,
       <<"screenshot", "gradient.png">>, <<"close", "">> >>

\* C9: in the coloring script, the calls after the two successful waits are,
\* in this order, select_option(mode), the 1000 ms delay and the screenshot of
\* the mode, for random, four-color and orientation-gradient; each screenshot
\* is taken at least 1000 ms after its mode was selected, while that mode is
\* still the selected one.
C9_ModeOrder ==
    (script = "coloring" /\ Did("wait_for_selector", "canvas", TRUE)
       /\ Did("wait_for_selector", "text=Coloring Rule", TRUE)) =>
        \A i \in StepIdx : i > 4 =>
            /\ i - 4 <= Len(ColoringOrder)
            /\ <<steps[i].op, steps[i].arg>> = ColoringOrder[i - 4]
            /\ steps[i].op = "wait_for_timeout" => steps[i].ms = 1000
            /\ steps[i].op = "screenshot" =>
                  /\ steps[i - 2].op = "select_option" /\ steps[i - 2].ok
                  /\ steps[i].at >= steps[i - 2].at + 1000
                  /\ steps[i].ok /\ steps[i].arg \in files

C9_Witness ==
    /\ script = "coloring" /\ status = "returned"
    /\ Len(steps) = 14 /\ files = ColoringFiles

\* C10: in a run of either script no statement is executed twice, every file
\* written is the file of a screenshot call, and a failed call is the last
\* call of the run, except that a timed-out canvas or 'Coloring Rule' wait
\* that stands in a try block is followed by the one error screenshot, after
\* which the run has ended.
C10_FailureIsTerminal ==
    /\ \A i, j \in StepIdx : i # j => steps[i].line # steps[j].line
    /\ files = {steps[i].arg : i \in {k \in StepIdx : steps[k].op = "screenshot"}}
    /\ \A i \in StepIdx : ~steps[i].ok =>
          /\ status # "running"
          /\ \/ i = Len(steps)
             \/ /\ i + 1 = Len(steps)
                /\ status = "returned"
                /\ steps[i].op = "wait_for_selector"
                /\ steps[i].arg \in {"canvas", "text=Coloring Rule"}
                /\ steps[i + 1].op = "screenshot"
                /\ steps[i + 1].arg \in ErrorFiles

C10_Witness ==
    /\ script = "editor" /\ status = "raised"
    /\ Did("wait_for_selector", "text=Edit Gradient", FALSE)
    /\ files = {}

====
